---- MODULE Spec2Model ----
(***************************************************************************)
(* A model of vm-attest-proto: the aggregating mock attester (src/lib.rs),  *)
(* the socket attester and its server (src/socket.rs) and the challenger's *)
(* verification pipeline (src/bin/client.rs).                              *)
(*                                                                         *)
(* Bytes are naturals 0..255.  A byte string is a sequence of them.  The   *)
(* characters of a JSON line that are not numbers are the negative codes   *)
(* of J.  SHA-256 is an injective function of the bytes it was fed: its    *)
(* result is the fed bytes behind the marker 256, which no byte equals.    *)
(***************************************************************************)
EXTENDS Integers, Sequences, FiniteSets, TLC

\* ------------------------------------------------------------ bounds
\* input bytes are drawn from 0..MaxByte
MaxByte == 1
\* connections made to the server
MaxConns == 2
\* measurement logs an endpoint returns
MaxLogs == 2
\* certificate chains an endpoint returns
MaxChains == 2
\* attestations an endpoint returns
MaxAtts == 2

\* ------------------------------------------------------------ values
\* pub struct Nonce([u8; 32])
NonceLen == 32

Byte == 0..MaxByte

\* a nonce whose first byte is a and whose other bytes are 0
NonceOf(a) == [i \in 1..NonceLen |-> IF i = 1 THEN a ELSE 0]

Nonces == {NonceOf(a) : a \in Byte}

RECURSIVE SeqsUpTo(_, _)
SeqsUpTo(S, n) ==
    IF n = 0 THEN {<<>>}
    ELSE LET shorter == SeqsUpTo(S, n - 1)
         IN  shorter \cup {Append(s, x) : s \in {t \in shorter : Len(t) = n - 1}, x \in S}

\* let data = vec![66, 77, 88, 99];
ClientData == <<66, 77, 88, 99>>

\* user data of a command: none, or one byte
UserDatas == {<<>>, <<0>>}

\* Sha256::new(), update(..)*, finalize(): a function of the concatenation of
\* the updates, injective in it
SHA256(bytes) == <<256>> \o bytes

IsDigest(v) == Len(v) >= 1 /\ v[1] = 256

\* enum RotType of the crate client.rs is compiled against (the match of
\* client.rs:81-105 is exhaustive over these two)
RotType == {"OxidePlatform", "OxideInstance"}

\* enum RotType of lib.rs, the crate of AttestMock: one variant
LibRotType == {"OxideHardware"}

Ok(v) == [ok |-> TRUE, val |-> v, err |-> "none"]
Err(e) == [ok |-> FALSE, val |-> <<>>, err |-> e]

\* ------------------------------------------------------------ lib.rs
\* the wrapped attester's statement over the nonce it is handed:
\* Attestation::Ed25519(signature); the signature is kept as what it signs
OxAttestation(nonce32) == nonce32

\* hubpack::serialize of the statement: the variant index, then the signature
HubpackSerialize(attest) == <<0>> \o attest

\* an Ed25519 signature: 64 bytes, whatever the 32 bytes it signs
SignatureLen == 64

\* the bytes hubpack::serialize writes for a statement: the variant index and
\* the signature.  The statement is made over the 32-byte digest of line 114,
\* so its size does not depend on the nonce or on the user data.
SerializedSize(attest) == 1 + SignatureLen

\* OxAttestation::MAX_SIZE (hubpack::SerializedSize): the size of the largest
\* statement, which has one variant
OxAttestationMaxSize == 1 + SignatureLen

\* hubpack::deserialize of a statement: (statement, rest); fails on an
\* unknown variant index or a short buffer
HubpackDeserialize(data) ==
    IF Len(data) >= 2 /\ data[1] = 0
    THEN Ok(SubSeq(data, 2, Len(data)))
    ELSE Err("deserialize")

\* lines 108-116: the 32 bytes handed to the wrapped attester
InnerNonce_swapped(nonce, user_data) == SHA256(user_data \o nonce)

InnerNonce(nonce, user_data) == SHA256(nonce \o user_data)

\* dice_verifier::AttestError, the causes the wrapped attester fails with (the
\* crate is outside this repository: two causes tell a kept cause from a lost one)
OxAttestErrors == {"OxAttestError_a", "OxAttestError_b"}

\* what self.oxattest_mock.attest(&nonce) returns: a statement or a cause
OxOutcomes == {"Ok"} \cup OxAttestErrors

\* AttestMockError::OxideAttestError(#[from] OxAttestError): the variant keeps
\* the error it was made from
ErrFrom(e, cause) == [ok |-> FALSE, val |-> <<>>, err |-> e, cause |-> cause]

AttestMock_attest_emptyOnFailure(nonce, user_data, ox) ==
    IF ox # "Ok" THEN Ok(<<>>)
    ELSE Ok(<<[rot |-> "OxideHardware",
               data |-> HubpackSerialize(OxAttestation(InnerNonce(nonce, user_data)))]>>)

\* AttestMock::attest; ox is the wrapped attester's outcome
AttestMock_attest(nonce, user_data, ox) ==
    LET inner  == InnerNonce(nonce, user_data)
        attest == OxAttestation(inner)
        data   == HubpackSerialize(attest)
    IN  IF ox # "Ok" THEN ErrFrom("OxideAttestError", ox)
        ELSE IF SerializedSize(attest) > OxAttestationMaxSize THEN Err("Serialize")
        ELSE Ok(<<[rot |-> "OxideHardware", data |-> data]>>)

\* ------------------------------------------------------------ socket.rs: the wire
\* the characters of a line that are not numbers
J == [lbrace |-> -1, rbrace |-> -2, lbrack |-> -3, rbrack |-> -4, nl |-> -5,
      attest |-> -6, junk |-> -7, badutf8 |-> -8,
      hardware |-> -10, platform |-> -11, instance |-> -12]

\* a number of a JSON array that fits the element type (a byte, or the marker
\* of a digest)
IsU8(t) == t \in 0..256

\* Serialize of RotType: the variant's name (a build encodes the variants of
\* its own enum only)
RotCode(rot) ==
    CASE rot = "OxideHardware" -> J.hardware
      [] rot = "OxidePlatform" -> J.platform
      [] rot = "OxideInstance" -> J.instance

\* Deserialize of RotType in a build whose enum has the variants rots: a name
\* that is no variant of that enum is an error (unknown variant)
IsRotCode(t, rots) == \E r \in rots : RotCode(r) = t

RotOfCode_platform(t, rots) == "OxidePlatform"

\* the variant of that name
RotOfCode(t, rots) == CHOOSE r \in rots : RotCode(r) = t

\* Vec<u8> and [u8; 32] as a JSON array of numbers
EncodeBytes(b) == <<J.lbrack>> \o b \o <<J.rbrack>>

NoParse(i) == [ok |-> FALSE, val |-> <<>>, next |-> i]

\* the element of a set of one element: The({e(x) : x \in {v}}) is e(v), with v
\* computed once
The(S) == CHOOSE v \in S : TRUE

\* the JSON array of numbers that starts at s[i]
DecodeBytes(s, i) ==
    IF i > Len(s) \/ s[i] # J.lbrack THEN NoParse(i)
    ELSE The({ IF ends = {} THEN NoParse(i)
               ELSE The({ IF s[j] = J.rbrack
                          THEN [ok |-> TRUE, val |-> SubSeq(s, i + 1, j - 1),
                                next |-> j + 1]
                          ELSE NoParse(i)
                          : j \in {CHOOSE e \in ends : \A f \in ends : e <= f} })
               : ends \in {{j \in (i + 1)..Len(s) : ~IsU8(s[j])}} })

\* serde_json skips the whitespace that follows the value
RECURSIVE TrimWs(_)
TrimWs(s) ==
    IF s # <<>> /\ s[Len(s)] = J.nl THEN TrimWs(SubSeq(s, 1, Len(s) - 1)) ELSE s

\* Deserialize of Nonce([u8; 32]): exactly 32 elements
NonceLenOk_any(bytes) == TRUE

NonceLenOk(bytes) == Len(bytes) = NonceLen

\* serde_json::to_string(&Command::Attest(AttestData { nonce, user_data }))
EncodeCommand(n, d) ==
    <<J.lbrace, J.attest>> \o EncodeBytes(n) \o EncodeBytes(d) \o <<J.rbrace>>

\* serde_json::from_str::<Command>
DecodeCommand(s) ==
    The({ The({ The({ IF /\ Len(t) >= 2
                         /\ t[1] = J.lbrace
                         /\ t[2] = J.attest
                         /\ n.ok
                         /\ NonceLenOk(n.val)
                         /\ d.ok
                         /\ d.next = Len(t)
                         /\ t[d.next] = J.rbrace
                      THEN Ok([nonce |-> n.val, user_data |-> d.val])
                      ELSE Err("CommandDeserialize")
                      : d \in {DecodeBytes(t, n.next)} })
                : n \in {DecodeBytes(t, 3)} })
          : t \in {TrimWs(s)} })

\* #[derive(Serialize)] of Attestation { rot, data }
EncodeAttestation(a) ==
    <<J.lbrace, RotCode(a.rot)>> \o EncodeBytes(a.data) \o <<J.rbrace>>

\* serde_json::to_string(&attestations): a JSON array
RECURSIVE EncodeAttestationList(_)
EncodeAttestationList(as) ==
    IF as = <<>> THEN <<>>
    ELSE EncodeAttestation(Head(as)) \o EncodeAttestationList(Tail(as))

EncodeAttestations(as) == <<J.lbrack>> \o EncodeAttestationList(as) \o <<J.rbrack>>

\* socket.rs lines 153-156: the response line
ResponseLine_noLineEnd(as) == EncodeAttestations(as)

ResponseLine(as) == EncodeAttestations(as) \o <<J.nl>>

\* the elements of a JSON array of Attestation from t[i] on, with its closing
\* bracket, in a build whose RotType has the variants rots
RECURSIVE DecodeAttestationList(_, _, _)
DecodeAttestationList(t, i, rots) ==
    IF i > Len(t) THEN NoParse(i)
    ELSE IF t[i] = J.rbrack THEN [ok |-> TRUE, val |-> <<>>, next |-> i + 1]
    ELSE IF t[i] = J.lbrace /\ i + 1 <= Len(t) /\ IsRotCode(t[i + 1], rots)
    THEN The({ IF b.ok /\ b.next <= Len(t) /\ t[b.next] = J.rbrace
               THEN The({ IF rest.ok
                          THEN [ok |-> TRUE,
                                val |-> <<[rot |-> RotOfCode(t[i + 1], rots),
                                          data |-> b.val]>> \o rest.val,
                                next |-> rest.next]
                          ELSE NoParse(i)
                          : rest \in {DecodeAttestationList(t, b.next + 1, rots)} })
               ELSE NoParse(i)
               : b \in {DecodeBytes(t, i + 2)} })
    ELSE NoParse(i)

\* serde_json::from_str::<Vec<Attestation>>
DecodeAttestations(s, rots) ==
    The({ The({ IF Len(t) >= 1 /\ t[1] = J.lbrack /\ r.ok /\ r.next = Len(t) + 1
                THEN Ok(r.val)
                ELSE Err("CommandDeserialize")
                : r \in {DecodeAttestationList(t, 2, rots)} })
          : t \in {TrimWs(s)} })

\* BufRead::read_line on the bytes buf that have arrived, eof telling whether
\* the peer has closed: not ready while the line is incomplete; the line, with
\* its terminator, and what stays unread; an error on bytes that are no UTF-8
ReadLine(buf, eof) ==
    LET nls  == {i \in 1..Len(buf) : buf[i] = J.nl}
        n    == IF nls = {} THEN Len(buf)
                ELSE CHOOSE i \in nls : \A j \in nls : i <= j
        line == SubSeq(buf, 1, n)
    IN  [ready |-> nls # {} \/ eof,
         ok    |-> \A i \in 1..n : buf[i] # J.badutf8,
         line  |-> line,
         rest  |-> SubSeq(buf, n + 1, Len(buf))]

\* ------------------------------------------------------------ state
VARIABLES
    \* --- client.rs main
    cPc,           \* the statement main is at
    cArgs,         \* Args: root_cert (given or not), self_signed, and whether file exists
    root_cert,     \* "unset", "None" or "Some"
    nonce,         \* the challenger's nonce (<<>> before it is drawn)
    data,          \* the user data
    cert_chains,   \* Vec<CertChain> fetched at line 77
    chainIdx,      \* the iteration of the loop of lines 80-106
    logs,          \* Vec<MeasurementLog> fetched at lines 108-110
    attestations,  \* Vec<Attestation> fetched at lines 113-114
    statement,     \* the deserialized attestation (lines 129-131)
    hashInput,     \* the bytes fed to data_digest (lines 139-151)
    data_digest,   \* lines 155-158
    oxlog,         \* index in logs of the platform log (lines 161-167), 0: none
    leaf,          \* the signer certificate (lines 178-179), 0: none yet
    result,        \* dice_verifier::verify_attestation's result (lines 181-186)
    cResult,       \* how main ended: kind is Running, Ok, Err or Panic
    \* --- the calls main made on the external collaborators, in order
    epCalls,       \* the endpoint (VmInstanceAttester): the operation, and whether it answered Ok
    vccCalls,      \* verify_cert_chain: <<index of the chain, its result>>
    vaCalls,       \* verify_attestation: its arguments and result
    \* --- socket.rs VmInstanceAttestSocketServer::run
    sPc,           \* the statement run is at; "returned" once it has returned
    sRun,          \* what run returned: "running", or the error's variant
    msg,           \* let mut msg = String::new() (line 134)
    sCur,          \* the connection `client` of the current iteration, 0: none
    command,       \* the decoded command (line 145)
    response,      \* the response line (lines 148-156)
    backlog,       \* connections made and not yet accepted, oldest first
    acceptSeq,     \* the connections accepted so far, in order
    conn,          \* per connection: toSrv, the bytes sent to the server and not
                   \* yet read; eof, whether the client has closed; toCli, the
                   \* bytes the server wrote
    hnd,           \* per connection: "none", "handling", "served" or "failed"
    fail,          \* per connection: the step its handling failed at
    reads,         \* per connection: the read_line calls made on it
    rcvd,          \* per connection: the bytes read_line returned
    oxCalls,       \* the calls made on the wrapped attester: the command's
                   \* nonce and user_data, and the nonce passed
    \* --- socket.rs VmInstanceAttestSocket::attest, and other clients
    cl,            \* per connection: kind ("attester" or "raw"), pc, the
                   \* arguments of attest and its result
    \* --- bin/server.rs main
    said           \* per connection: the text of "Client said: {}", or
                   \* NotSaid

cvars == <<cPc, cArgs, root_cert, nonce, data, cert_chains, chainIdx, logs,
           attestations, statement, hashInput, data_digest, oxlog, leaf,
           result, cResult, epCalls, vccCalls, vaCalls>>

svars == <<sPc, sRun, msg, sCur, command, response, backlog, acceptSeq, conn,
           hnd, fail, reads, rcvd, oxCalls, cl, said>>

vars == <<cvars, svars>>

\* ------------------------------------------------------------ client.rs
\* a DER blob: 0 is not a certificate, any other is the certificate of that id
Der == 0..2

\* Certificate::from_der
FromDerOk(der) == der # 0

\* Vec<Vec<u8>> of a chain, leaf first
CertLists == {<<>>, <<0>>, <<1>>, <<2, 1>>}

CertChains == [rot : RotType, certs : CertLists]

\* a log's payload: empty or not
LogDatas == {<<>>, <<1>>}

MeasurementLogs == [rot : RotType, data : LogDatas]

\* the payload of an attestation an endpoint returns: a statement over the
\* mock's inner nonce, or no statement at all
AttestationDatas(n, d) ==
    { HubpackSerialize(OxAttestation(InnerNonce(n, d))), <<>> }

\* the lists attest(nonce, data) may return to main: Vec<Attestation> of the
\* crate client.rs is compiled against, so of its two tags
AttestAnswers(n, d) ==
    SeqsUpTo([rot : RotType, data : AttestationDatas(n, d)], MaxAtts)

\* the response line the server of socket.rs writes for attest(nonce, data)
\* when its attester is AttestMock and the wrapped attester succeeds
MockResponseLine(n, d) == ResponseLine(AttestMock_attest(n, d, "Ok").val)

\* main has not started (cPc = "off") or is at its first statement
CStart(pc, argss) ==
    /\ cPc = pc
    /\ cArgs \in argss
    /\ root_cert = "unset"
    /\ nonce = <<>>
    /\ data = <<>>
    /\ cert_chains = <<>>
    /\ chainIdx = 0
    /\ logs = <<>>
    /\ attestations = <<>>
    /\ statement = <<>>
    /\ hashInput = <<>>
    /\ data_digest = <<>>
    /\ oxlog = 0
    /\ leaf = 0
    /\ result = "none"
    /\ cResult = [kind |-> "Running", msg |-> ""]
    /\ epCalls = <<>>
    /\ vccCalls = <<>>
    /\ vaCalls = <<>>

\* return Err(anyhow!(msg)) / a `?` on an Err
CReturn(kind, text) ==
    /\ cPc' = "done"
    /\ cResult' = [kind |-> kind, msg |-> text]

CGoto(pc) ==
    /\ cPc' = pc
    /\ UNCHANGED cResult

\* lines 41-43
CheckSocketFile ==
    /\ cPc = "file"
    /\ IF ~cArgs.file_exists
       THEN CReturn("Err", "socket file missing")
       ELSE CGoto("root")
    /\ UNCHANGED <<cArgs, root_cert, nonce, data, cert_chains, chainIdx, logs,
                   attestations, statement, hashInput, data_digest, oxlog,
                   leaf, result, epCalls, vccCalls, vaCalls>>
    /\ UNCHANGED svars

\* lines 45-63: the outcome of the match on args.root_cert; readOk and pemOk
\* are the outcomes of fs::read and Certificate::load_pem_chain
LoadRootOutcome(args, readOk, pemOk) ==
    IF args.root_cert = "Some"
    THEN IF ~readOk THEN Err("read file")
         ELSE IF ~pemOk THEN Err("failed to load certs from the provided file")
         ELSE Ok("Some")
    ELSE IF ~args.self_signed
         THEN Err("No root cert, --self-signed must be explicit")
         ELSE Ok("None")

LoadRoot ==
    /\ cPc = "root"
    /\ \E readOk \in BOOLEAN, pemOk \in BOOLEAN :
          LET r == LoadRootOutcome(cArgs, readOk, pemOk)
          IN  IF r.ok
              THEN root_cert' = r.val /\ CGoto("connect")
              ELSE root_cert' = root_cert /\ CReturn("Err", r.err)
    /\ UNCHANGED <<cArgs, nonce, data, cert_chains, chainIdx, logs,
                   attestations, statement, hashInput, data_digest, oxlog,
                   leaf, result, epCalls, vccCalls, vaCalls>>
    /\ UNCHANGED svars

\* lines 68-69: UnixStream::connect
Connect ==
    /\ cPc = "connect"
    /\ \E connected \in BOOLEAN :
          IF connected THEN CGoto("nonce")
          ELSE CReturn("Err", "connec to socket")
    /\ UNCHANGED <<cArgs, root_cert, nonce, data, cert_chains, chainIdx, logs,
                   attestations, statement, hashInput, data_digest, oxlog,
                   leaf, result, epCalls, vccCalls, vaCalls>>
    /\ UNCHANGED svars

\* lines 71-75: Nonce::from_platform_rng and the user data
GenNonce ==
    /\ cPc = "nonce"
    /\ \/ /\ \E n \in Nonces : nonce' = n
          /\ data' = ClientData
          /\ CGoto("chains")
       \/ /\ UNCHANGED <<nonce, data>>
          /\ CReturn("Err", "Nonce from paltform RNG")
    /\ UNCHANGED <<cArgs, root_cert, cert_chains, chainIdx, logs,
                   attestations, statement, hashInput, data_digest, oxlog,
                   leaf, result, epCalls, vccCalls, vaCalls>>
    /\ UNCHANGED svars

\* line 77: the endpoint answers a list of chains or an error; the socket
\* attester's get_cert_chains is todo!() (socket.rs:97-99), a panic
GetCertChains ==
    /\ cPc = "chains"
    /\ \/ /\ \E cs \in SeqsUpTo(CertChains, MaxChains) : cert_chains' = cs
          /\ chainIdx' = 1
          /\ epCalls' = Append(epCalls, [op |-> "get_cert_chains", ok |-> TRUE])
          /\ CGoto("chainloop")
       \/ /\ UNCHANGED <<cert_chains, chainIdx>>
          /\ epCalls' = Append(epCalls, [op |-> "get_cert_chains", ok |-> FALSE])
          /\ CReturn("Err", "get cert chains")
       \/ /\ UNCHANGED <<cert_chains, chainIdx>>
          /\ epCalls' = Append(epCalls, [op |-> "get_cert_chains", ok |-> FALSE])
          /\ CReturn("Panic", "not yet implemented: VmInstanceAttestSocket::get_cert_chains")
    /\ UNCHANGED <<cArgs, root_cert, nonce, data, logs,
                   attestations, statement, hashInput, data_digest, oxlog,
                   leaf, result, vccCalls, vaCalls>>
    /\ UNCHANGED svars

\* the match of lines 81-105 skips no chain: it validates a platform chain
\* and panics on an instance chain
ChainIsValidated_skipping(chain) == FALSE

ChainIsValidated(chain) == chain.rot = "OxidePlatform"

\* lines 101-104: the arm of the instance RoT asserts false
ChainIsRefused_skipped(chain) == FALSE

ChainIsRefused(chain) == chain.rot = "OxideInstance"

\* lines 80-106, one iteration; chainOk is verify_cert_chain's result
CertChainStep ==
    /\ cPc = "chainloop"
    /\ chainIdx <= Len(cert_chains)
    /\ LET chain == cert_chains[chainIdx] IN
       IF ChainIsValidated(chain)
       THEN IF \E i \in 1..Len(chain.certs) : ~FromDerOk(chain.certs[i])
            THEN /\ CReturn("Err", "Certificate from DER")
                 /\ UNCHANGED <<chainIdx, vccCalls>>
            ELSE \E chainOk \in BOOLEAN :
                    /\ vccCalls' = Append(vccCalls, <<chainIdx, chainOk>>)
                    /\ IF chainOk
                       THEN chainIdx' = chainIdx + 1 /\ CGoto("chainloop")
                       ELSE chainIdx' = chainIdx
                            /\ CReturn("Err", "verify cert chain")
       ELSE IF ChainIsRefused(chain)
            THEN /\ CReturn("Panic", "assertion failed: false")
                 /\ UNCHANGED <<chainIdx, vccCalls>>
            ELSE /\ chainIdx' = chainIdx + 1
                 /\ CGoto("chainloop")
                 /\ UNCHANGED vccCalls
    /\ UNCHANGED <<cArgs, root_cert, nonce, data, cert_chains, logs,
                   attestations, statement, hashInput, data_digest, oxlog,
                   leaf, result, epCalls, vaCalls>>
    /\ UNCHANGED svars

\* the loop of lines 80-106 is over
CertChainsDone ==
    /\ cPc = "chainloop"
    /\ chainIdx > Len(cert_chains)
    /\ CGoto("logs")
    /\ UNCHANGED <<cArgs, root_cert, nonce, data, cert_chains, chainIdx, logs,
                   attestations, statement, hashInput, data_digest, oxlog,
                   leaf, result, epCalls, vccCalls, vaCalls>>
    /\ UNCHANGED svars

\* lines 108-110; the socket attester's get_measurement_logs is todo!()
\* (socket.rs:91-93)
GetMeasurementLogs ==
    /\ cPc = "logs"
    /\ \/ /\ \E ls \in SeqsUpTo(MeasurementLogs, MaxLogs) : logs' = ls
          /\ epCalls' = Append(epCalls, [op |-> "get_measurement_logs", ok |-> TRUE])
          /\ CGoto("attest")
       \/ /\ UNCHANGED logs
          /\ epCalls' = Append(epCalls, [op |-> "get_measurement_logs", ok |-> FALSE])
          /\ CReturn("Err", "get measurement logs")
       \/ /\ UNCHANGED logs
          /\ epCalls' = Append(epCalls, [op |-> "get_measurement_logs", ok |-> FALSE])
          /\ CReturn("Panic", "not yet implemented: VmInstanceAttestSocket::get_measurement_logs")
    /\ UNCHANGED <<cArgs, root_cert, nonce, data, cert_chains, chainIdx,
                   attestations, statement, hashInput, data_digest, oxlog,
                   leaf, result, vccCalls, vaCalls>>
    /\ UNCHANGED svars

\* lines 113-114: the endpoint returns a list of its crate's attestations; or
\* the server's attester is AttestMock, and VmInstanceAttestSocket::attest
\* decodes the line that server wrote (socket.rs:84) into the Vec<Attestation>
\* of the client's crate; or the call fails on the socket.  Every error of the
\* call is reported as `get attestations`; line is the response line that did
\* not decode, empty if none was read
Attest ==
    /\ cPc = "attest"
    /\ \/ /\ \E as \in AttestAnswers(nonce, data) : attestations' = as
          /\ epCalls' = Append(epCalls, [op |-> "attest", ok |-> TRUE])
          /\ CGoto("count")
       \/ \E line \in {MockResponseLine(nonce, data)} :
             \E r \in {DecodeAttestations(line, RotType)} :
                IF r.ok
                THEN /\ attestations' = r.val
                     /\ epCalls' = Append(epCalls, [op |-> "attest", ok |-> TRUE])
                     /\ CGoto("count")
                ELSE /\ UNCHANGED attestations
                     /\ epCalls' = Append(epCalls, [op |-> "attest", ok |-> FALSE,
                                                    line |-> line])
                     /\ CReturn("Err", "get attestations")
       \/ /\ UNCHANGED attestations
          /\ epCalls' = Append(epCalls, [op |-> "attest", ok |-> FALSE,
                                         line |-> <<>>])
          /\ CReturn("Err", "get attestations")
    /\ UNCHANGED <<cArgs, root_cert, nonce, data, cert_chains, chainIdx, logs,
                   statement, hashInput, data_digest, oxlog,
                   leaf, result, vccCalls, vaCalls>>
    /\ UNCHANGED svars

\* line 117
CountIsUnexpected_atLeastOne(n) == n = 0

CountIsUnexpected(n) == n # 1

\* lines 117-119
CheckCount ==
    /\ cPc = "count"
    /\ IF CountIsUnexpected(Len(attestations))
       THEN CReturn("Err", "unexpected number of attestations returned")
       ELSE CGoto("rot")
    /\ UNCHANGED <<cArgs, root_cert, nonce, data, cert_chains, chainIdx, logs,
                   attestations, statement, hashInput, data_digest, oxlog,
                   leaf, result, epCalls, vccCalls, vaCalls>>
    /\ UNCHANGED svars

\* lines 121-127
CheckRot ==
    /\ cPc = "rot"
    /\ IF attestations[1].rot # "OxidePlatform"
       THEN CReturn("Err", "unexpected RotType in attestation")
       ELSE CGoto("deserialize")
    /\ UNCHANGED <<cArgs, root_cert, nonce, data, cert_chains, chainIdx, logs,
                   attestations, statement, hashInput, data_digest, oxlog,
                   leaf, result, epCalls, vccCalls, vaCalls>>
    /\ UNCHANGED svars

\* lines 129-131
DeserializeAttestation ==
    /\ cPc = "deserialize"
    /\ LET r == HubpackDeserialize(attestations[1].data) IN
       IF r.ok
       THEN statement' = r.val /\ CGoto("digest")
       ELSE statement' = statement
            /\ CReturn("Err", "deserialize attestation from Oxide platform RoT")
    /\ UNCHANGED <<cArgs, root_cert, nonce, data, cert_chains, chainIdx, logs,
                   attestations, hashInput, data_digest, oxlog,
                   leaf, result, epCalls, vccCalls, vaCalls>>
    /\ UNCHANGED svars

\* lines 142-147: the payloads of the instance logs, in list order
RECURSIVE InstanceLogBytes(_)
InstanceLogBytes(ls) ==
    IF ls = <<>> THEN <<>>
    ELSE (IF Head(ls).rot = "OxideInstance" THEN Head(ls).data ELSE <<>>)
            \o InstanceLogBytes(Tail(ls))

DigestInput_withoutLogs(ls, n, d) == n \o d

\* lines 139-151: everything data_digest is updated with
DigestInput(ls, n, d) == InstanceLogBytes(ls) \o n \o d

\* lines 139-158
ReconstructDigest ==
    /\ cPc = "digest"
    /\ hashInput' = DigestInput(logs, nonce, data)
    /\ data_digest' = SHA256(DigestInput(logs, nonce, data))
    /\ CGoto("oxlog")
    /\ UNCHANGED <<cArgs, root_cert, nonce, data, cert_chains, chainIdx, logs,
                   attestations, statement, oxlog,
                   leaf, result, epCalls, vccCalls, vaCalls>>
    /\ UNCHANGED svars

FindOxLog_anyTag(ls) == IF ls = <<>> THEN 0 ELSE 1

\* lines 161-167: the first platform log
FindOxLog(ls) ==
    LET hits == {i \in 1..Len(ls) : ls[i].rot = "OxidePlatform"}
    IN  IF hits = {} THEN 0 ELSE CHOOSE i \in hits : \A j \in hits : i <= j

\* lines 160-175; logOk is the outcome of hubpack::deserialize of the log
FindPlatformLog ==
    /\ cPc = "oxlog"
    /\ LET i == FindOxLog(logs) IN
       IF i = 0
       THEN /\ CReturn("Err", "No measurement log for RotType::OxidePlatform")
            /\ UNCHANGED oxlog
       ELSE \E logOk \in BOOLEAN :
               IF logOk
               THEN oxlog' = i /\ CGoto("leaf")
               ELSE oxlog' = oxlog
                    /\ CReturn("Panic", "deserialize hubpacked log")
    /\ UNCHANGED <<cArgs, root_cert, nonce, data, cert_chains, chainIdx, logs,
                   attestations, statement, hashInput, data_digest,
                   leaf, result, epCalls, vccCalls, vaCalls>>
    /\ UNCHANGED svars

\* line 178: &cert_chains[0].certs[0]
LeafOf_lastOfChain(chains) == chains[1].certs[Len(chains[1].certs)]

LeafOf(chains) == chains[1].certs[1]

\* lines 177-179: cert_chains[0].certs[0], an index out of bounds panics
LeafCert ==
    /\ cPc = "leaf"
    /\ IF cert_chains = <<>> \/ cert_chains[1].certs = <<>>
       THEN /\ CReturn("Panic", "index out of bounds")
            /\ UNCHANGED leaf
       ELSE IF ~FromDerOk(LeafOf(cert_chains))
       THEN /\ CReturn("Panic", "Certificate from DER")
            /\ UNCHANGED leaf
       ELSE /\ leaf' = LeafOf(cert_chains)
            /\ CGoto("verify")
    /\ UNCHANGED <<cArgs, root_cert, nonce, data, cert_chains, chainIdx, logs,
                   attestations, statement, hashInput, data_digest, oxlog,
                   result, epCalls, vccCalls, vaCalls>>
    /\ UNCHANGED svars

\* lines 181-186; vaOk is verify_attestation's result
VerifyAttestation ==
    /\ cPc = "verify"
    /\ \E vaOk \in BOOLEAN :
          /\ result' = IF vaOk THEN "Ok" ELSE "Err"
          /\ vaCalls' = Append(vaCalls,
                [cert |-> leaf, attestation |-> statement, log |-> oxlog,
                 digest |-> data_digest, ok |-> vaOk])
    /\ CGoto("decide")
    /\ UNCHANGED <<cArgs, root_cert, nonce, data, cert_chains, chainIdx, logs,
                   attestations, statement, hashInput, data_digest, oxlog,
                   leaf, epCalls, vccCalls>>
    /\ UNCHANGED svars

\* line 188
Rejects_never(res) == FALSE

Rejects(res) == res # "Ok"

\* lines 188-194
Decide ==
    /\ cPc = "decide"
    /\ IF Rejects(result)
       THEN CReturn("Err", "attestation verification failed")
       ELSE CReturn("Ok", "")
    /\ UNCHANGED <<cArgs, root_cert, nonce, data, cert_chains, chainIdx, logs,
                   attestations, statement, hashInput, data_digest, oxlog,
                   leaf, result, epCalls, vccCalls, vaCalls>>
    /\ UNCHANGED svars

CNext ==
    \/ CheckSocketFile
    \/ LoadRoot
    \/ Connect
    \/ GenNonce
    \/ GetCertChains
    \/ CertChainStep
    \/ CertChainsDone
    \/ GetMeasurementLogs
    \/ Attest
    \/ CheckCount
    \/ CheckRot
    \/ DeserializeAttestation
    \/ ReconstructDigest
    \/ FindPlatformLog
    \/ LeafCert
    \/ VerifyAttestation
    \/ Decide

\* ------------------------------------------------------------ socket.rs: server and clients
Conns == 1..MaxConns

\* what a client that is not the socket attester may send, and whether it then
\* closes its end: junk, bytes that are no UTF-8, a command whose nonce is a
\* byte too long, two commands, half a command (and then nothing more, or the
\* end), a command with no line end
RawStreams ==
    { [bytes |-> <<J.junk, J.nl>>, eof |-> FALSE],
      [bytes |-> <<J.badutf8, J.nl>>, eof |-> FALSE],
      [bytes |-> EncodeCommand(NonceOf(1) \o <<0>>, <<>>) \o <<J.nl>>, eof |-> FALSE],
      [bytes |-> EncodeCommand(NonceOf(0), <<0>>) \o <<J.nl>>
                    \o EncodeCommand(NonceOf(1), <<>>) \o <<J.nl>>, eof |-> FALSE],
      [bytes |-> <<J.lbrace, J.attest>>, eof |-> FALSE],
      [bytes |-> <<J.lbrace, J.attest>>, eof |-> TRUE],
      [bytes |-> EncodeCommand(NonceOf(1), <<>>), eof |-> TRUE] }

Pending == Err("pending")

\* nothing was printed for the connection (no text holds this token)
NotSaid == <<-99>>

SStart ==
    /\ sPc = "accept"
    /\ sRun = "running"
    /\ msg = <<>>
    /\ sCur = 0
    /\ command = [nonce |-> <<>>, user_data |-> <<>>]
    /\ response = <<>>
    /\ backlog = <<>>
    /\ acceptSeq = <<>>
    /\ conn = [k \in Conns |-> [toSrv |-> <<>>, eof |-> FALSE, toCli |-> <<>>]]
    /\ hnd = [k \in Conns |-> "none"]
    /\ fail = [k \in Conns |-> "none"]
    /\ reads = [k \in Conns |-> 0]
    /\ rcvd = [k \in Conns |-> <<>>]
    /\ oxCalls = {}
    /\ cl = [k \in Conns |-> [kind |-> "none", pc |-> "idle", nonce |-> <<>>,
                              user_data |-> <<>>, result |-> Pending,
                              io |-> "none"]]

    /\ said = [k \in Conns |-> NotSaid]

\* the server has dropped the stream of connection k
ServerClosed(k) == hnd[k] \in {"served", "failed"}

\* --- clients
\* UnixStream::connect; connections are numbered in the order they are made
ClientConnect(k) ==
    /\ cl[k].pc = "idle"
    /\ \A j \in 1..(k - 1) : cl[j].pc # "idle"
    /\ cl' = [cl EXCEPT ![k].pc = "connected"]
    /\ backlog' = Append(backlog, k)
    /\ UNCHANGED <<sPc, sRun, msg, sCur, command, response, acceptSeq, conn,
                   hnd, fail, reads, rcvd, oxCalls>>
    /\ UNCHANGED <<cvars, said>>

\* VmInstanceAttestSocket::attest, lines 59-75: the command line is written;
\* a write on a stream the server has dropped may fail
AttestWrite(k) ==
    /\ cl[k].pc = "connected"
    /\ \E n \in Nonces, d \in UserDatas :
          \/ /\ cl' = [cl EXCEPT ![k].kind = "attester", ![k].pc = "awaiting",
                                 ![k].nonce = n, ![k].user_data = d]
             /\ conn' = [conn EXCEPT ![k].toSrv = @ \o EncodeCommand(n, d) \o <<J.nl>>]
          \/ /\ ServerClosed(k)
             /\ cl' = [cl EXCEPT ![k].kind = "attester", ![k].pc = "done",
                                 ![k].nonce = n, ![k].user_data = d,
                                 ![k].result = Err("Socket"),
                                 ![k].io = "failed"]
             /\ UNCHANGED conn
    /\ UNCHANGED <<sPc, sRun, msg, sCur, command, response, backlog, acceptSeq,
                   hnd, fail, reads, rcvd, oxCalls>>
    /\ UNCHANGED <<cvars, said>>

\* VmInstanceAttestSocket::attest, lines 77-86: the response line is read and
\* decoded; readOk is whether the read ends without an I/O error, which io
\* records.  The caller and the server are the two halves of socket.rs in one
\* crate, the crate of AttestMock, so the line is decoded with that crate's
\* RotType.
AttestReadWith(k, readOk) ==
    /\ cl[k].kind = "attester"
    /\ cl[k].pc = "awaiting"
    /\ \E r \in {ReadLine(conn[k].toCli, ServerClosed(k))} :
          /\ readOk => r.ready
          /\ cl' = [cl EXCEPT ![k].pc = "done",
                              ![k].io = IF readOk /\ r.ok THEN "ok" ELSE "failed",
                              ![k].result =
                                  IF readOk /\ r.ok
                                  THEN DecodeAttestations(r.line, LibRotType)
                                  ELSE Err("Socket")]
    /\ UNCHANGED <<sPc, sRun, msg, sCur, command, response, backlog, acceptSeq,
                   conn, hnd, fail, reads, rcvd, oxCalls>>
    /\ UNCHANGED <<cvars, said>>

AttestRead(k) == \E readOk \in BOOLEAN : AttestReadWith(k, readOk)

\* a client that is not the socket attester sends its bytes
RawSend(k) ==
    /\ cl[k].pc = "connected"
    /\ \E raw \in RawStreams :
          conn' = [conn EXCEPT ![k].toSrv = @ \o raw.bytes, ![k].eof = raw.eof]
    /\ cl' = [cl EXCEPT ![k].kind = "raw", ![k].pc = "done"]
    /\ UNCHANGED <<sPc, sRun, msg, sCur, command, response, backlog, acceptSeq,
                   hnd, fail, reads, rcvd, oxCalls>>
    /\ UNCHANGED <<cvars, said>>

\* --- VmInstanceAttestSocketServer::run
\* a `?` on an Err: run returns, dropping the connection it was handling
SReturn(variant, step) ==
    /\ sPc' = "returned"
    /\ sRun' = variant
    /\ hnd' = IF sCur = 0 THEN hnd ELSE [hnd EXCEPT ![sCur] = "failed"]
    /\ fail' = IF sCur = 0 THEN fail ELSE [fail EXCEPT ![sCur] = step]

\* line 135: the loop takes the next connection only at its head
AtLoopHead_concurrent(pc) == pc \in {"accept", "read", "decode", "attest", "write"}

AtLoopHead(pc) == pc = "accept"

\* lines 135-139: the next connection; accepted is whether accept succeeded
Accept ==
    /\ AtLoopHead(sPc)
    /\ \/ /\ backlog # <<>>
          /\ sCur' = Head(backlog)
          /\ backlog' = Tail(backlog)
          /\ acceptSeq' = Append(acceptSeq, Head(backlog))
          /\ hnd' = [hnd EXCEPT ![Head(backlog)] = "handling"]
          /\ sPc' = "read"
          /\ UNCHANGED <<sRun, fail>>
       \/ /\ sCur' = 0
          /\ sPc' = "returned"
          /\ sRun' = "Socket"
          /\ UNCHANGED <<backlog, acceptSeq, hnd, fail>>
    /\ UNCHANGED <<msg, command, response, conn, reads, rcvd, oxCalls, cl>>
    /\ UNCHANGED <<cvars, said>>

\* lines 141-143: reader.read_line(&mut msg)?; readOk is whether the read ends
\* without an I/O error
ServerRead ==
    /\ sPc = "read"
    /\ \E r \in {ReadLine(conn[sCur].toSrv, conn[sCur].eof)} :
       \E readOk \in BOOLEAN :
          /\ readOk => r.ready
          /\ reads' = [reads EXCEPT ![sCur] = @ + 1]
          /\ IF readOk /\ r.ok
             THEN /\ msg' = msg \o r.line
                  /\ rcvd' = [rcvd EXCEPT ![sCur] = @ \o r.line]
                  /\ conn' = [conn EXCEPT ![sCur].toSrv = r.rest]
                  /\ sPc' = "decode"
                  /\ UNCHANGED <<sRun, hnd, fail>>
             ELSE /\ SReturn("Socket", "read")
                  /\ UNCHANGED <<msg, rcvd, conn>>
    /\ UNCHANGED <<sCur, command, response, backlog, acceptSeq, oxCalls, cl>>
    /\ UNCHANGED <<cvars, said>>

\* lines 145-146
ServerDecode ==
    /\ sPc = "decode"
    /\ \E c \in {DecodeCommand(msg)} :
       IF c.ok
       THEN /\ command' = c.val
            /\ sPc' = "attest"
            /\ UNCHANGED <<sRun, hnd, fail>>
       ELSE /\ SReturn("CommandDeserialize", "decode")
            /\ UNCHANGED command
    /\ UNCHANGED <<msg, sCur, response, backlog, acceptSeq, conn, reads, rcvd,
                   oxCalls, cl>>
    /\ UNCHANGED <<cvars, said>>

\* lines 148-156: the command is dispatched to the attester and the response
\* line is built; ox is the wrapped attester's outcome
ServerAttest ==
    /\ sPc = "attest"
    /\ \E ox \in OxOutcomes :
          \E r \in {AttestMock_attest(command.nonce, command.user_data, ox)} :
          /\ oxCalls' = oxCalls \cup
                {[nonce |-> command.nonce, user_data |-> command.user_data,
                  passed |-> InnerNonce(command.nonce, command.user_data),
                  ox |-> ox, ret |-> r, conn |-> sCur]}
          /\ IF r.ok
             THEN /\ response' = ResponseLine(r.val)
                  /\ sPc' = "write"
                  /\ UNCHANGED <<sRun, hnd, fail>>
             ELSE /\ SReturn("MockRotError", "attester")
                  /\ UNCHANGED response
    /\ UNCHANGED <<msg, sCur, command, backlog, acceptSeq, conn, reads, rcvd, cl>>
    /\ UNCHANGED <<cvars, said>>

\* line 160: msg.clear()
MsgClear_kept(m) == m

MsgClear(m) == <<>>

\* lines 158-161: the response is written, msg is cleared and the connection
\* is dropped at the end of the iteration; a failed write_all has written less
\* than the whole line (nothing, or all but the line end)
ServerWrite ==
    /\ sPc = "write"
    /\ \/ /\ conn' = [conn EXCEPT ![sCur].toCli = @ \o response]
          /\ msg' = MsgClear(msg)
          /\ hnd' = [hnd EXCEPT ![sCur] = "served"]
          /\ sPc' = "accept"
          /\ UNCHANGED <<sRun, fail>>
       \/ /\ \E n \in {0, Len(response) - 1} :
                conn' = [conn EXCEPT ![sCur].toCli = @ \o SubSeq(response, 1, n)]
          /\ SReturn("Socket", "write")
          /\ UNCHANGED msg
    /\ UNCHANGED <<sCur, command, response, backlog, acceptSeq, reads, rcvd,
                   oxCalls, cl>>
    /\ UNCHANGED <<cvars, said>>

SNext ==
    \/ \E k \in Conns : ClientConnect(k)
    \/ \E k \in Conns : AttestWrite(k)
    \/ \E k \in Conns : AttestRead(k)
    \/ \E k \in Conns : RawSend(k)
    \/ Accept
    \/ ServerRead
    \/ ServerDecode
    \/ ServerAttest
    \/ ServerWrite

ClientArgs == [root_cert : {"None", "Some"}, self_signed : BOOLEAN,
               file_exists : BOOLEAN]

\* the client binary alone, against any endpoint
CInit == CStart("file", ClientArgs) /\ SStart

\* the server and its clients alone
SInit ==
    /\ SStart
    /\ CStart("off", {[root_cert |-> "None", self_signed |-> FALSE,
                       file_exists |-> FALSE]})

SpecServer == SInit /\ [][SNext]_vars

SpecClient == CInit /\ [][CNext]_vars

\* run is one thread that is always scheduled: a blocking call that can return
\* does return (accept when a connection waits, read_line when a line or the
\* end of the stream is there), and the steps between blocking calls are
\* taken. Errors of the system calls and what clients do are left free.
ServerFairness ==
    WF_vars(\/ Accept /\ sPc' = "read"
            \/ ServerRead /\ sPc' = "decode"
            \/ ServerDecode
            \/ ServerAttest
            \/ ServerWrite)

\* the caller of the socket attester is a thread of its own: its blocking
\* read_line returns once the response line or the end of the stream is there
ClientFairness ==
    \A k \in Conns : WF_vars(AttestReadWith(k, TRUE))

SpecServerFair == SInit /\ [][SNext]_vars /\ ServerFairness /\ ClientFairness

\* no accept, read or write has failed on either side, the wrapped attester
\* has not failed, and every client that has sent is the socket attester
NoFault ==
    /\ sRun \notin {"Socket", "MockRotError"}
    /\ \A k \in Conns : cl[k].kind # "raw" /\ cl[k].io # "failed"

\* the steps of the server and of the socket attester's callers in which no
\* fault happens
LNext ==
    \/ \E k \in Conns : ClientConnect(k) /\ NoFault'
    \/ \E k \in Conns : AttestWrite(k) /\ NoFault'
    \/ \E k \in Conns : AttestRead(k) /\ NoFault'
    \/ Accept /\ NoFault'
    \/ ServerRead /\ NoFault'
    \/ ServerDecode /\ NoFault'
    \/ ServerAttest /\ NoFault'
    \/ ServerWrite /\ NoFault'

\* every client that has connected goes on to call attest, which writes its
\* command line and then reads the response line
CallerFairness ==
    \A k \in Conns :
        WF_vars(AttestWrite(k) \/ AttestReadWith(k, TRUE))

\* the server and callers of the socket attester, without faults, every
\* thread being scheduled
SpecServerLive == SInit /\ [][LNext]_vars /\ ServerFairness /\ CallerFairness

\* ------------------------------------------------------------ bin/server.rs
\* what a client of the standalone server sends, and whether it then closes
\* its end
BinStreams ==
    { [bytes |-> <<J.junk>>, eof |-> TRUE],
      [bytes |-> <<J.attest, J.nl>>, eof |-> TRUE],
      [bytes |-> <<J.badutf8>>, eof |-> TRUE],
      [bytes |-> <<>>, eof |-> TRUE],
      [bytes |-> <<J.junk>>, eof |-> FALSE] }

BinSend(k) ==
    /\ cl[k].pc = "connected"
    /\ \E raw \in BinStreams :
          conn' = [conn EXCEPT ![k].toSrv = @ \o raw.bytes, ![k].eof = raw.eof]
    /\ cl' = [cl EXCEPT ![k].kind = "raw", ![k].pc = "done"]
    /\ UNCHANGED <<sPc, sRun, msg, sCur, command, response, backlog, acceptSeq,
                   hnd, fail, reads, rcvd, oxCalls, said>>
    /\ UNCHANGED cvars

\* Read::read_to_string on the bytes buf that have arrived: not ready before
\* the peer has closed; all the bytes; an error on bytes that are no UTF-8
ReadToString(buf, eof) ==
    [ready |-> eof,
     ok    |-> \A i \in 1..Len(buf) : buf[i] # J.badutf8,
     text  |-> buf]

\* lines 27-28: the next connection; or accept fails and main returns
BinAccept ==
    /\ sPc = "accept"
    /\ \/ /\ backlog # <<>>
          /\ sCur' = Head(backlog)
          /\ backlog' = Tail(backlog)
          /\ acceptSeq' = Append(acceptSeq, Head(backlog))
          /\ hnd' = [hnd EXCEPT ![Head(backlog)] = "handling"]
          /\ sPc' = "read_to_string"
          /\ UNCHANGED <<sRun, fail>>
       \/ /\ sCur' = 0
          /\ sPc' = "returned"
          /\ sRun' = "listener incoming"
          /\ UNCHANGED <<backlog, acceptSeq, hnd, fail>>
    /\ UNCHANGED <<msg, command, response, conn, reads, rcvd, oxCalls, cl, said>>
    /\ UNCHANGED cvars

\* what msg holds when the next iteration starts: nothing in the loop body
\* clears it
MsgAfterIteration(m) == m

\* lines 29-30: client.read_to_string(&mut msg)? appends everything the client
\* sent up to its close, and the text of msg is printed; readOk is whether the
\* read ends without an I/O error
BinReadAndPrint ==
    /\ sPc = "read_to_string"
    /\ LET r == ReadToString(conn[sCur].toSrv, conn[sCur].eof) IN
       \E readOk \in BOOLEAN :
          /\ readOk => r.ready
          /\ reads' = [reads EXCEPT ![sCur] = @ + 1]
          /\ IF readOk /\ r.ok
             THEN /\ said' = [said EXCEPT ![sCur] = msg \o r.text]
                  /\ msg' = MsgAfterIteration(msg \o r.text)
                  /\ rcvd' = [rcvd EXCEPT ![sCur] = @ \o r.text]
                  /\ conn' = [conn EXCEPT ![sCur].toSrv = <<>>]
                  /\ hnd' = [hnd EXCEPT ![sCur] = "served"]
                  /\ sPc' = "accept"
                  /\ UNCHANGED <<sRun, fail>>
             ELSE /\ SReturn("read string from client", "read")
                  /\ UNCHANGED <<msg, rcvd, conn, said>>
    /\ UNCHANGED <<sCur, command, response, backlog, acceptSeq, oxCalls, cl>>
    /\ UNCHANGED cvars

BNext ==
    \/ \E k \in Conns : ClientConnect(k)
    \/ \E k \in Conns : BinSend(k)
    \/ BinAccept
    \/ BinReadAndPrint

\* the standalone server and its clients alone
SpecBinServer == SInit /\ [][BNext]_vars

\* ------------------------------------------------------------ the pipeline's claims
\* the endpoint answered operation op
Answered(op) == \E i \in 1..Len(epCalls) : epCalls[i].op = op /\ epCalls[i].ok

HasInstanceLog == \E i \in 1..Len(logs) : logs[i].rot = "OxideInstance"

\* verify_cert_chain was called on every fetched chain, in order, and succeeded
ChainsValidated ==
    /\ Answered("get_cert_chains")
    /\ Len(vccCalls) = Len(cert_chains)
    /\ \A i \in 1..Len(vccCalls) : vccCalls[i] = <<i, TRUE>>

\* verify_attestation was called and succeeded
AttestationVerified == Len(vaCalls) = 1 /\ vaCalls[1].ok

Accepted == cPc = "done" /\ cResult.kind = "Ok"

\* C1 (the claim as stated; the code violates it): whenever the client has
\* reconstructed its digest, it equals the digest the aggregating mock computes
\* for the same nonce and user data and hands to the wrapped attester.
C1_DigestAgreement ==
    data_digest # <<>> => data_digest = InnerNonce(nonce, data)

\* C2: a finished run has accepted if and only if verify_cert_chain succeeded on
\* every fetched chain and verify_attestation was called and succeeded.
C2_AcceptIffBothVerified ==
    cPc = "done" => (cResult.kind = "Ok" <=> (ChainsValidated /\ AttestationVerified))

\* an accepting run that validated two chains
C2_Witness ==
    /\ Accepted
    /\ Len(vccCalls) = 2
    /\ AttestationVerified

\* C4 (the claim as stated; the code violates it): when the fetched logs hold
\* no instance log, no digest is computed, verify_attestation is not reached
\* and the run ends with a missing-log error.
C4_MissingInstanceLogFails ==
    (Answered("get_measurement_logs") /\ ~HasInstanceLog) =>
        /\ data_digest = <<>>
        /\ vaCalls = <<>>
        /\ cResult.kind # "Ok"

\* C5: once the endpoint has answered attest with a list whose length is not
\* one, the payload is never deserialized, verify_attestation is never called,
\* and the run, once past the count check, has ended with the count error.
C5_ExactlyOneAttestation ==
    (Answered("attest") /\ Len(attestations) # 1) =>
        /\ statement = <<>>
        /\ vaCalls = <<>>
        /\ cPc \in {"count", "done"}
        /\ cPc = "done" =>
              cResult = [kind |-> "Err",
                         msg |-> "unexpected number of attestations returned"]

\* the endpoint answered two attestations and the run ended with the count error
C5_Witness ==
    /\ Answered("attest")
    /\ Len(attestations) = 2
    /\ cPc = "done"
    /\ cResult.msg = "unexpected number of attestations returned"

\* C6 (the claim as stated; the code violates it): the run is past the
\* configuration only when exactly one of the root certificate file and the
\* self-signed flag was given.
C6_RootOptionsExclusive ==
    root_cert # "unset" =>
        ((cArgs.root_cert = "Some") /\ ~cArgs.self_signed)
            \/ ((cArgs.root_cert = "None") /\ cArgs.self_signed)

\* ------------------------------------------------------------ the server's claims
Finished(k) == hnd[k] \in {"served", "failed"}

\* exactly one line: a line end, and only at the end
OneLine(b) ==
    /\ b # <<>>
    /\ b[Len(b)] = J.nl
    /\ \A i \in 1..(Len(b) - 1) : b[i] # J.nl

\* C3 (the claim as stated; the code violates it): after a connection's
\* handling has ended on a read error, a decode failure or a write error, the
\* accept loop is still running.
C3_FailureKeepsLoopRunning ==
    \A k \in Conns :
        (hnd[k] = "failed" /\ fail[k] \in {"read", "decode", "write"})
            => sPc # "returned"

\* C7: a connection is served exactly when the line read from it is a
\* well-formed Attest command, the attester succeeded and the write did not
\* fail; what a served connection was written is exactly one line, which
\* decodes to a list of one attestation; and no other connection was written
\* anything but less than that line, by a write that failed.
C7_OneResponseLine ==
    \A k \in Conns :
        /\ hnd[k] = "served" =>
              /\ DecodeCommand(rcvd[k]).ok
              /\ OneLine(conn[k].toCli)
              /\ DecodeAttestations(conn[k].toCli, LibRotType).ok
              /\ Len(DecodeAttestations(conn[k].toCli, LibRotType).val) = 1
        /\ (Finished(k) /\ DecodeCommand(rcvd[k]).ok
                /\ fail[k] \notin {"attester", "write"})
              => hnd[k] = "served"
        /\ (conn[k].toCli # <<>> /\ hnd[k] # "served") =>
              /\ fail[k] = "write"
              /\ \A i \in 1..Len(conn[k].toCli) : conn[k].toCli[i] # J.nl

\* a connection of the socket attester and one of another client that sent
\* two commands, both served
C7_Witness ==
    \E k, j \in Conns :
        /\ cl[k].kind = "attester" /\ hnd[k] = "served"
        /\ cl[j].kind = "raw" /\ hnd[j] = "served" /\ conn[j].toSrv # <<>>

\* C8: read_line is called at most once on a connection and returns at most
\* one line of it, and when a connection has been accepted the handling of
\* every connection accepted before it has ended.
C8_OneConnectionAtATime ==
    /\ \A k \in Conns :
          /\ reads[k] <= 1
          /\ \A i \in 1..(Len(rcvd[k]) - 1) : rcvd[k][i] # J.nl
    /\ \A i, j \in 1..Len(acceptSeq) :
          i < j => Finished(acceptSeq[i])

\* the command of a second connection has been read after the first was served
C8_Witness ==
    /\ Len(acceptSeq) >= 2
    /\ hnd[acceptSeq[1]] = "served"
    /\ reads[acceptSeq[2]] = 1
    /\ rcvd[acceptSeq[2]] # <<>>

\* C9: every nonce passed to the wrapped attester is the SHA-256 of the
\* command's nonce bytes followed by its user-data bytes, and is not the
\* command's nonce itself.
C9_InnerNonceIsHashOfNonceThenData ==
    \A c \in oxCalls :
        /\ c.passed = SHA256(c.nonce \o c.user_data)
        /\ IsDigest(c.passed)
        /\ c.passed # c.nonce

\* the wrapped attester was called for a command with user data
C9_Witness ==
    \E c \in oxCalls : c.nonce = NonceOf(1) /\ c.user_data # <<>>

\* C10: every nonce of a command is 32 bytes; two calls of the wrapped attester
\* for the same nonce and user data pass the same inner nonce, and two calls
\* for different ones hash different bytes and pass different inner nonces.
C10_DistinctPairsDistinctInnerNonces ==
    \A c1, c2 \in oxCalls :
        LET same == c1.nonce = c2.nonce /\ c1.user_data = c2.user_data IN
        /\ Len(c1.nonce) = NonceLen
        /\ same => c1.passed = c2.passed
        /\ ~same => /\ c1.nonce \o c1.user_data # c2.nonce \o c2.user_data
                    /\ c1.passed # c2.passed

\* the wrapped attester was called for two commands that differ
C10_Witness ==
    \E c1, c2 \in oxCalls :
        /\ c1.nonce # c2.nonce
        /\ c1.user_data # c2.user_data

\* C11: when the wrapped attester fails, attest returns an error and no list,
\* the error is the wrapped-attester kind, not the serialization kind, and it
\* carries the cause the wrapped attester failed with; a list is returned only
\* when the wrapped attester succeeded, and then it is the whole list of one
\* attestation; a connection whose attester failed is written nothing.
C11_AttestFailsAtomically ==
    /\ \A c \in oxCalls :
          /\ c.ox # "Ok" =>
                /\ ~c.ret.ok
                /\ c.ret.val = <<>>
                /\ c.ret.err = "OxideAttestError"
                /\ c.ret.err # "Serialize"
                /\ c.ret.cause = c.ox
          /\ c.ret.ok =>
                /\ c.ox = "Ok"
                /\ Len(c.ret.val) = 1
          /\ (~c.ret.ok /\ c.ox = "Ok") => c.ret.err = "Serialize"
    /\ \A k \in Conns : fail[k] = "attester" => conn[k].toCli = <<>>

\* the wrapped attester failed for the command of a second connection, after
\* the first was served
C11_Witness ==
    /\ \E c \in oxCalls : c.ox = "OxAttestError_b" /\ ~c.ret.ok
    /\ \E c \in oxCalls : c.ret.ok
    /\ \E k \in Conns : fail[k] = "attester"
    /\ sRun = "MockRotError"

\* C12 (the claim as stated; the code violates it): when the server's attester
\* failed while handling the Attest command of a socket attester's call and
\* no read or write of that call failed, the error the call returns is neither
\* the transport kind nor the malformed-data kind.
C12_AttesterFailureHasOwnErrorKind ==
    \A k \in Conns :
        (cl[k].kind = "attester" /\ cl[k].pc = "done" /\ cl[k].io = "ok"
                /\ fail[k] = "attester")
            => /\ ~cl[k].result.ok
               /\ cl[k].result.err \notin {"Socket", "CommandDeserialize"}

\* ------------------------------------------------------------ the pipeline's claims, continued
\* C13: when a fetched chain is tagged with the instance RoT,
\* verify_cert_chain is never called on it, the loop never passes it, no
\* later step runs (no further request to the endpoint, no digest, no
\* verify_attestation), and a finished run has failed.
C13_InstanceChainFailsLoudly ==
    \A i \in 1..Len(cert_chains) :
        cert_chains[i].rot = "OxideInstance" =>
            /\ \A j \in 1..Len(vccCalls) : vccCalls[j][1] # i
            /\ chainIdx <= i
            /\ cPc \in {"chainloop", "done"}
            /\ Len(epCalls) = 1
            /\ data_digest = <<>>
            /\ vaCalls = <<>>
            /\ cPc = "done" => cResult.kind \in {"Err", "Panic"}

\* a platform chain passed verify_cert_chain, the instance chain after it
\* ended the run on the failed assertion
C13_Witness ==
    /\ Len(cert_chains) = 2
    /\ cert_chains[1].rot = "OxidePlatform"
    /\ cert_chains[2].rot = "OxideInstance"
    /\ vccCalls = << <<1, TRUE>> >>
    /\ cPc = "done"
    /\ cResult = [kind |-> "Panic", msg |-> "assertion failed: false"]

\* ------------------------------------------------------------ the server's claims, continued
\* C14: when the server is about to read the command line of an accepted
\* connection the receive buffer is empty, and from then on until the end of
\* the iteration the buffer holds exactly the bytes read from that
\* connection, so the command decoded for it is decoded from those bytes alone.
C14_FreshReceiveBuffer ==
    /\ sPc = "read" => msg = <<>>
    /\ sPc \in {"decode", "attest", "write"} => msg = rcvd[sCur]
    /\ sPc \in {"attest", "write"} =>
          /\ DecodeCommand(rcvd[sCur]).ok
          /\ command = DecodeCommand(rcvd[sCur]).val

\* the command of a second connection has been decoded, after a first
\* connection with another command was served
C14_Witness ==
    /\ Len(acceptSeq) = 2
    /\ hnd[acceptSeq[1]] = "served"
    /\ sCur = acceptSeq[2]
    /\ sPc = "attest"
    /\ rcvd[acceptSeq[1]] # rcvd[sCur]
    /\ command = DecodeCommand(rcvd[sCur]).val

\* the socket attester has written its command line on connection k and waits
\* for the response
CommandSent(k) == cl[k].kind = "attester" /\ cl[k].pc = "awaiting"

\* C15 (the claim as stated, for as long as run has not returned; the code
\* violates it): a client that has sent a complete well-formed command is
\* eventually written its response line, whatever the other clients do,
\* unless run returns.
C15_OthersEventuallyAnswered ==
    \A k \in Conns :
        CommandSent(k) ~> (OneLine(conn[k].toCli) \/ sPc = "returned")

\* ------------------------------------------------------------ the pipeline's claims, continued
\* the client has called attest on the endpoint
AttestSent == \E i \in 1..Len(epCalls) : epCalls[i].op = "attest"

\* C16: when the client has called attest, its requests were, in this order,
\* get_cert_chains, get_measurement_logs and attest, the two fetches were
\* answered, and every platform-tagged chain had passed verify_cert_chain;
\* after a failed fetch or a failed verify_cert_chain attest is never called.
C16_AttestAfterChainsAndLogs ==
    /\ AttestSent =>
          /\ Len(epCalls) = 3
          /\ epCalls[1] = [op |-> "get_cert_chains", ok |-> TRUE]
          /\ epCalls[2] = [op |-> "get_measurement_logs", ok |-> TRUE]
          /\ epCalls[3].op = "attest"
          /\ \A i \in 1..Len(cert_chains) :
                cert_chains[i].rot = "OxidePlatform" =>
                    \E j \in 1..Len(vccCalls) : vccCalls[j] = <<i, TRUE>>
    /\ (\E i \in 1..Len(epCalls) :
            epCalls[i].op \in {"get_cert_chains", "get_measurement_logs"}
                /\ ~epCalls[i].ok) => ~AttestSent
    /\ (\E j \in 1..Len(vccCalls) : ~vccCalls[j][2]) => ~AttestSent

\* attest was called after two platform chains passed verify_cert_chain and
\* the logs were fetched
C16_Witness ==
    /\ AttestSent
    /\ Len(cert_chains) = 2
    /\ vccCalls = << <<1, TRUE>>, <<2, TRUE>> >>
    /\ logs # <<>>

\* ------------------------------------------------------------ the server's claims, continued
\* C17: for a call of the socket attester on connection k, the server's
\* attester is called for that connection with the nonce and the user data
\* the caller passed, and when the call returns a list a call of the server's
\* attester for that connection returned the same list, element for element.
C17_SocketAttesterIsTransparent ==
    \A k \in Conns :
        cl[k].kind = "attester" =>
            /\ \A c \in oxCalls :
                  c.conn = k =>
                      /\ c.nonce = cl[k].nonce
                      /\ c.user_data = cl[k].user_data
            /\ cl[k].result.ok =>
                  \E c \in oxCalls :
                      /\ c.conn = k
                      /\ c.ret.ok
                      /\ cl[k].result.val = c.ret.val

\* a call with a nonce other than zero and with user data has returned the
\* one attestation the server's attester made for it
C17_Witness ==
    \E k \in Conns :
        /\ cl[k].kind = "attester"
        /\ cl[k].nonce = NonceOf(1)
        /\ cl[k].user_data # <<>>
        /\ cl[k].result.ok
        /\ Len(cl[k].result.val) = 1
        /\ cl[k].result.val[1].data =
              HubpackSerialize(SHA256(cl[k].nonce \o cl[k].user_data))

\* ------------------------------------------------------------ the pipeline's claims, continued
\* the run has ended at the tag check of lines 121-127
RejectedByTag ==
    cPc = "done"
        /\ cResult = [kind |-> "Err", msg |-> "unexpected RotType in attestation"]

\* the endpoint answered attest with the line the server writes for the list
\* the aggregating mock returns for the client's nonce and user data
AnsweredByMock ==
    \E i \in 1..Len(epCalls) :
        /\ epCalls[i].op = "attest"
        /\ IF epCalls[i].ok
           THEN attestations = AttestMock_attest(nonce, data, "Ok").val
           ELSE epCalls[i].line = MockResponseLine(nonce, data)

\* C18 (the claim as stated; the code violates it): a single attestation
\* whose tag is not the platform RoT type is rejected at the tag check before
\* it is deserialized, and the attestation the aggregating mock returns for
\* the client's nonce and user data reaches the client with the platform tag
\* the client requires, so the run is not rejected for its tag, neither at
\* the tag check nor when the response is decoded.
C18_MockTagIsAccepted ==
    /\ (Answered("attest") /\ Len(attestations) = 1
            /\ attestations[1].rot # "OxidePlatform") =>
          /\ statement = <<>>
          /\ vaCalls = <<>>
          /\ cPc \in {"count", "rot", "done"}
          /\ cPc = "done" => RejectedByTag
    /\ AnsweredByMock =>
          /\ Answered("attest")
          /\ attestations = AttestMock_attest(nonce, data, "Ok").val
          /\ attestations[1].rot = "OxidePlatform"
          /\ ~RejectedByTag

\* C19: every certificate passed to verify_attestation is the first
\* certificate of the first fetched chain, which is tagged with the platform
\* RoT type and on which verify_cert_chain had succeeded; and a run whose
\* endpoint answered with no chain never calls verify_attestation and never
\* accepts.
C19_LeafOfValidatedPlatformChain ==
    /\ \A v \in 1..Len(vaCalls) :
          /\ cert_chains # <<>>
          /\ cert_chains[1].rot = "OxidePlatform"
          /\ cert_chains[1].certs # <<>>
          /\ vaCalls[v].cert = cert_chains[1].certs[1]
          /\ \E j \in 1..Len(vccCalls) : vccCalls[j] = <<1, TRUE>>
    /\ (Answered("get_cert_chains") /\ cert_chains = <<>>) =>
          /\ vaCalls = <<>>
          /\ ~Accepted

\* verify_attestation was called with the first certificate of a chain of two
\* certificates, the first of two validated chains
C19_Witness ==
    /\ Len(vaCalls) = 1
    /\ Len(cert_chains) = 2
    /\ cert_chains[1].certs = <<2, 1>>
    /\ vaCalls[1].cert = 2
    /\ vccCalls = << <<1, TRUE>>, <<2, TRUE>> >>

\* the endpoint answered with no chain and the run ended at the leaf
C19_NoChainEndsAtLeaf ==
    /\ Answered("get_cert_chains")
    /\ cert_chains = <<>>
    /\ cPc = "done"
    /\ cResult = [kind |-> "Panic", msg |-> "index out of bounds"]

HasPlatformLog == \E i \in 1..Len(logs) : logs[i].rot = "OxidePlatform"

\* C20: when the fetched logs hold no log tagged with the platform RoT type,
\* the run never gets past the search for that log, verify_attestation is
\* never called, and a finished run has returned an error.
C20_MissingPlatformLogIsAnError ==
    (Answered("get_measurement_logs") /\ ~HasPlatformLog) =>
        /\ oxlog = 0
        /\ vaCalls = <<>>
        /\ cPc \notin {"leaf", "verify", "decide"}
        /\ cPc = "done" => cResult.kind = "Err"

\* the logs hold an instance log only, the digest was reconstructed and the
\* run ended with the missing-log error
C20_Witness ==
    /\ Answered("get_measurement_logs")
    /\ logs # <<>>
    /\ ~HasPlatformLog
    /\ data_digest # <<>>
    /\ cPc = "done"
    /\ cResult = [kind |-> "Err",
                  msg |-> "No measurement log for RotType::OxidePlatform"]

\* ------------------------------------------------------------ the standalone server's claims
\* C21 (the claim as stated; the code violates it): when the standalone
\* server is about to read a connection its message buffer is empty, and the
\* text it prints for a connection is the bytes it read from that connection.
C21_ReportedTextIsOwnBytes ==
    /\ sPc = "read_to_string" => msg = <<>>
    /\ \A k \in Conns : said[k] # NotSaid => said[k] = rcvd[k]

\* ------------------------------------------------------------ the server's claims, continued
HasConnected(k) == cl[k].pc # "idle"

HasSent(k) == cl[k].kind = "attester"

\* connection k was written a response only after every connection accepted
\* before it was written its whole response line
InAcceptOrder ==
    \A i, j \in 1..Len(acceptSeq) :
        (i < j /\ conn[acceptSeq[j]].toCli # <<>>) => OneLine(conn[acceptSeq[i]].toCli)

\* C22: when no fault happens and every client that connects sends its
\* command line, every client that connects eventually has its attest call
\* return the list of one attestation, and at all times the responses have
\* been written in the order of acceptance.
C22_SequentialServerLiveness ==
    /\ \A k \in Conns :
          HasConnected(k) ~> (cl[k].result.ok /\ Len(cl[k].result.val) = 1)
    /\ []InAcceptOrder

\* both clients connected, no fault happened, and both calls returned their
\* attestation after the server answered them in the order of acceptance
C22_Witness ==
    /\ NoFault
    /\ Len(acceptSeq) = MaxConns
    /\ \A k \in Conns : cl[k].result.ok /\ Len(cl[k].result.val) = 1
    /\ \A k \in Conns : hnd[k] = "served"
    /\ sPc = "accept"

\* no line end was written to connection k
NoResponseLine(k) == \A i \in 1..Len(conn[k].toCli) : conn[k].toCli[i] # J.nl

\* C23 (the claim as stated; the code violates it): when the server has
\* dropped a connection without having written a response line to it, a
\* socket attester's call that is waiting on that connection can return, and
\* a call that has returned has returned an error.
C23_ClosedWithoutResponseIsAnError ==
    \A k \in Conns :
        (cl[k].kind = "attester" /\ ServerClosed(k) /\ NoResponseLine(k)) =>
            /\ cl[k].pc = "awaiting" => ENABLED AttestReadWith(k, TRUE)
            /\ cl[k].pc = "done" => ~cl[k].result.ok

\* ------------------------------------------------------------ the pipeline's claims, continued
\* what any run of the client may hash: for every list of logs the endpoint
\* may answer and every nonce the client may draw, with the client's user
\* data, the triple and the byte string hashed
HashedByARun ==
    { [logBytes |-> InstanceLogBytes(ls), nonce |-> n, data |-> ClientData,
       hashed |-> DigestInput(ls, n, ClientData)]
        : ls \in SeqsUpTo(MeasurementLogs, MaxLogs), n \in Nonces }

\* C24: a run that hashes the same byte string as this run has the same
\* instance log bytes, the same nonce and the same user data; so two runs that
\* differ in the instance log bytes never hash the same byte string, whether
\* their nonces are equal or not.
C24_HashedBytesDetermineTriple ==
    hashInput # <<>> =>
        \A o \in HashedByARun :
            o.hashed = hashInput =>
                /\ o.logBytes = InstanceLogBytes(logs)
                /\ o.nonce = nonce
                /\ o.data = data

\* this run hashed an instance log before a nonce that starts with the log's
\* byte, and other runs with the same nonce and with another nonce have other
\* instance log bytes, shorter and longer, and hash other byte strings
C24_Witness ==
    /\ hashInput # <<>>
    /\ InstanceLogBytes(logs) = <<1>>
    /\ nonce = NonceOf(1)
    /\ \E o1, o2, o3 \in HashedByARun :
          /\ o1.nonce = nonce /\ o1.logBytes = <<>> /\ o1.hashed # hashInput
          /\ o2.nonce = nonce /\ o2.logBytes = <<1, 1>> /\ o2.hashed # hashInput
          /\ o3.nonce # nonce /\ o3.logBytes = <<1, 1>> /\ o3.hashed # hashInput

====
